---------------------------- MODULE Spec2Model ----------------------------
(***************************************************************************)
(* Model of the polarization simulation engine of simulation/simulation.py *)
(* (class Simulation) together with the two frequency buttons of           *)
(* simulation/app.py.                                                      *)
(*                                                                         *)
(* Python floats are modelled in fixed point, every quantity an integer    *)
(* count of a unit:                                                        *)
(*   time, durations      1 s                                              *)
(*   beam area            1 cm^2                                           *)
(*   charge               1e-22 C   (ELECTRON_CHARGE = 1602)               *)
(*   microwave frequency  0.1 GHz   (140.1 GHz = 1401)                     *)
(*   polarization         1e-5      (1.0 = 100000, 0.95 = 95000)           *)
(*   probability          1/3600    (trip_rate_per_hour / 3600.0)          *)
(* Float rounding is not modelled: sums and products are exact, and a      *)
(* quotient is the floor of the exact quotient.                            *)
(***************************************************************************)
EXTENDS Integers, FiniteSets, Sequences, TLC

\* ------------------------------------------------------------------------
\* Bounds of the model
\* ------------------------------------------------------------------------
MaxSteps == 4
MaxResets == 2
MaxTimeStep == 2
MaxBeamArea == 2
MaxNudge == 1
RandomLevels == 2
TripMin == 1
TripMax == 2

\* ------------------------------------------------------------------------
\* Program constants
\* ------------------------------------------------------------------------
ELECTRON_CHARGE == 1602
SecondsPerHour == 3600
DefaultTripRate == 12
ReferenceFrequency == 1401
MicrowaveCoeff == 1
PolOne == 100000
PolZero == 0
DoseEps == 0
PMAX == 95000
PHI == 16
ExpOne == 10000
ExpTerms == 4

None == [none |-> TRUE]
NoTwin == [on |-> FALSE]

\* ------------------------------------------------------------------------
\* Input domains
\* ------------------------------------------------------------------------
CurrentUnit == 2 * ELECTRON_CHARGE
BeamCurrents == {-CurrentUnit, CurrentUnit, 2 * CurrentUnit}
TimeSteps == 1..MaxTimeStep
BeamAreas == 1..MaxBeamArea
AnyTimeSteps == (-1)..MaxTimeStep
AnyBeamAreas == (-1)..MaxBeamArea
Frequencies == {ReferenceFrequency, ReferenceFrequency - 2 * PolOne,
                ReferenceFrequency + 2 * PolOne}
PmaxArgs == {PMAX - 15000, PMAX}
AnyPmaxArgs == PmaxArgs \cup {0, PolOne + 50000}
TripRates == {0, DefaultTripRate, SecondsPerHour}
RandomDraws == 0..(RandomLevels - 1)
\* an action dict: each key is absent ({}) or present with one value
ActionDict(b, f) == [beam_current |-> b, microwave_frequency |-> f]
Actions == {ActionDict({}, {})}
             \cup {ActionDict({x}, {}) : x \in BeamCurrents}
             \cup {ActionDict({}, {x}) : x \in Frequencies}
             \cup {ActionDict({-CurrentUnit}, {ReferenceFrequency})}

VARIABLES
  beam_current, time_step, beam_area, microwave_frequency, pmax, phi,
  accumulated_dose, polarization, time_elapsed,
  in_trip, trip_start, trip_duration,
  min_trip_duration, max_trip_duration, trip_prob_per_step,
  ret,          \* value returned by the last call (None when it returned none)
  op,           \* the last operation: "init", "step", "raise", "reset", "nudge",
                \* "twin_nudge"
  branch,       \* the branch of the trip logic the last step() took
  steps,        \* step() calls since construction or the last reset()
  resets,       \* consecutive reset() calls
  constructed,  \* the fields as __init__ left them
  arg,          \* the action dict of the last step() (None after other calls)
  unclamped,    \* self.polarization between lines 123 and 124 of the last step()
  outage,       \* steps of the current or last trip that ended with in_trip true
  twin          \* a second engine, built with the same parameters and given the
                \* same calls, draws and beam_current overrides but no
                \* microwave_frequency override (off when absent)

config == <<time_step, beam_area, pmax, phi, min_trip_duration,
            max_trip_duration, trip_prob_per_step>>
fields == <<beam_current, microwave_frequency, accumulated_dose, polarization,
            time_elapsed, in_trip, trip_start, trip_duration>>
ghost == <<ret, op, branch, steps, resets, constructed, arg, unclamped,
           outage, twin>>
vars == <<config, fields, ghost>>

\* ------------------------------------------------------------------------
\* Pure functions
\* ------------------------------------------------------------------------
Max(a, b) == IF a >= b THEN a ELSE b
Min(a, b) == IF a <= b THEN a ELSE b

\* math.exp(-dose / phi_) for dose > 0, in units of 1/ExpOne, computed as
\* (1 + dose/(n*phi_))^(-n), one factor per recursion step.
RECURSIVE ExpNegPow(_, _, _)
ExpNegPow(dose, phi_, n) ==
  IF n = 0 THEN ExpOne
  ELSE (ExpNegPow(dose, phi_, n - 1) * (ExpTerms * phi_)) \div (ExpTerms * phi_ + dose)

ExpNeg(dose, phi_) == ExpNegPow(dose, phi_, ExpTerms)

single_exponential_polarization(dose, pmax_, phi_) ==
  IF dose <= DoseEps THEN pmax_
  ELSE (pmax_ * ExpNeg(dose, phi_)) \div ExpOne

\* dDose = (current_beam * time_step) / (ELECTRON_CHARGE * beam_area)
DoseIncrement(current_beam, ts, area) ==
  (current_beam * ts) \div (ELECTRON_CHARGE * area)

\* faulty variant: the dose increment guarded by a non-zero test
BeamOnNonZero(current_beam) == current_beam # 0

\* the guard of the dose increment
BeamOn(current_beam) == current_beam > 0

\* faulty variant: a penalty for a deviation to either side of the reference
MicrowaveEffectAbsolute(f) ==
  IF f >= ReferenceFrequency
  THEN -((f - ReferenceFrequency) * MicrowaveCoeff)
  ELSE -((ReferenceFrequency - f) * MicrowaveCoeff)

\* faulty variant: the reference frequency off by 0.1 GHz
MicrowaveEffectOffReference(f) ==
  -((f - (ReferenceFrequency - 1)) * MicrowaveCoeff)

\* -(microwave_frequency - 140.1) * 0.0001
MicrowaveEffect(f) == -((f - ReferenceFrequency) * MicrowaveCoeff)

\* faulty variant: only the upper clamp
ClampUpperOnly(p) == Min(PolOne, p)

Clamp(p) == Max(PolZero, Min(PolOne, p))

\* random.random() < p_trip, with p_trip = trip_prob_per_step * time_step
TripDrawn(u, prob, ts) == u * SecondsPerHour < prob * ts * RandomLevels

\* faulty variant: the operands of the subtraction swapped
TripOverSwapped(t, start, duration) == (start - t) > duration

\* faulty variant: the trip ends as soon as trip_duration is reached
TripOverAtDuration(t, start, duration) == (t - start) >= duration

\* (time_elapsed - trip_start) > trip_duration
TripOver(t, start, duration) == (t - start) > duration

\* faulty variant: the clock advances by one second whatever the time_step
AdvanceTimeByOne(t, ts) == t + 1

\* time_elapsed += time_step
AdvanceTime(t, ts) == t + ts

\* random.uniform(a, b)
Uniform(a, b) == Min(a, b)..Max(a, b)

\* ------------------------------------------------------------------------
\* Construction
\* ------------------------------------------------------------------------
Construct(bc, ts, area, mf, pmaxArg, rate, durations) ==
  /\ beam_current = bc
  /\ time_step = ts
  /\ beam_area = area
  /\ microwave_frequency = mf
  /\ pmax = PMAX
  /\ phi = PHI
  /\ accumulated_dose = 0
  /\ polarization = pmaxArg
  /\ time_elapsed = 0
  /\ in_trip = FALSE
  /\ trip_start = 0
  /\ trip_duration = 0
  /\ min_trip_duration = durations[1]
  /\ max_trip_duration = durations[2]
  /\ trip_prob_per_step = rate
  /\ ret = None
  /\ op = "init"
  /\ branch = "none"
  /\ steps = 0
  /\ resets = 0
  /\ arg = None
  /\ unclamped = None
  /\ outage = 0
  /\ constructed = [beam_current |-> bc, microwave_frequency |-> mf,
                    accumulated_dose |-> 0, polarization |-> pmaxArg,
                    time_elapsed |-> 0, in_trip |-> FALSE,
                    trip_start |-> 0, trip_duration |-> 0]

\* Construction with arguments inside the documented ranges (time_step > 0,
\* beam_area > 0, 0 < pmax <= 1), as app.py's widgets supply them
Init ==
  \E bc \in {CurrentUnit}, ts \in TimeSteps, area \in BeamAreas,
     mf \in {ReferenceFrequency}, pmaxArg \in PmaxArgs, rate \in TripRates :
    /\ Construct(bc, ts, area, mf, pmaxArg, rate, <<TripMin, TripMax>>)
    /\ twin = NoTwin

\* ------------------------------------------------------------------------
\* step(action)
\* ------------------------------------------------------------------------
\* faulty variant: only the beam_current key is honoured
OverrideBeamOnly(action, key, old) ==
  IF key = "beam_current" /\ action[key] # {}
  THEN CHOOSE x \in action[key] : TRUE ELSE old

\* 1. overrides
Override(action, key, old) ==
  IF action[key] # {} THEN CHOOSE x \in action[key] : TRUE ELSE old

\* the mutable fields of the engine, as a record
Engine ==
  [beam_current |-> beam_current, microwave_frequency |-> microwave_frequency,
   accumulated_dose |-> accumulated_dose, polarization |-> polarization,
   time_elapsed |-> time_elapsed, in_trip |-> in_trip,
   trip_start |-> trip_start, trip_duration |-> trip_duration]

\* faulty variant: the step that finds the trip over draws for a new trip
EngineBranchRedraw(e, u) ==
  IF e.in_trip /\ ~TripOver(e.time_elapsed, e.trip_start, e.trip_duration)
  THEN "tripped"
  ELSE IF TripDrawn(u, trip_prob_per_step, time_step)
       THEN "trip_start"
       ELSE IF e.in_trip THEN "trip_end" ELSE "normal"

\* 2. the branch of the beam trip logic, for an engine e and a draw u
EngineBranch(e, u) ==
  IF e.in_trip
  THEN IF TripOver(e.time_elapsed, e.trip_start, e.trip_duration)
       THEN "trip_end" ELSE "tripped"
  ELSE IF TripDrawn(u, trip_prob_per_step, time_step)
       THEN "trip_start" ELSE "normal"

TripBranch(u) == EngineBranch(Engine, u)

\* faulty variant: the dose grows only while the microwave is on reference
EngineDoseOnReference(e, current_beam) ==
  IF BeamOn(current_beam) /\ e.microwave_frequency = ReferenceFrequency
  THEN e.accumulated_dose + DoseIncrement(current_beam, time_step, beam_area)
  ELSE e.accumulated_dose

\* 3. the dose of engine e after the dose increment
EngineDose(e, current_beam) ==
  IF BeamOn(current_beam)
  THEN e.accumulated_dose + DoseIncrement(current_beam, time_step, beam_area)
  ELSE e.accumulated_dose

\* the steps so far of the current or last trip that delivered no beam
OutageAfter(b, n) ==
  CASE b = "trip_start" -> 1
    [] b = "tripped" -> n + 1
    [] OTHER -> n

InTripAfter(b) == b \in {"tripped", "trip_start"}

\* faulty variant: the step that starts a trip still delivers the beam
CurrentBeamOnTripStart(b, bc) ==
  CASE b = "trip_end" -> bc
    [] b = "tripped" -> 0
    [] b = "trip_start" -> bc
    [] b = "normal" -> bc

\* faulty variant: the step that ends a trip delivers nothing
CurrentBeamOffTripEnd(b, bc) ==
  CASE b = "trip_end" -> 0
    [] b = "tripped" -> 0
    [] b = "trip_start" -> 0
    [] b = "normal" -> bc

\* current_beam, per branch of the trip logic
CurrentBeam(b, bc) ==
  CASE b = "trip_end" -> bc
    [] b = "tripped" -> 0
    [] b = "trip_start" -> 0
    [] b = "normal" -> bc

\* faulty variant: trip_start taken from the clock after the advance
StepTripAfterAdvance(b) ==
  /\ in_trip' = InTripAfter(b)
  /\ IF b = "trip_start"
     THEN /\ trip_start' = time_elapsed + time_step
          /\ trip_duration' \in Uniform(min_trip_duration, max_trip_duration)
     ELSE UNCHANGED <<trip_start, trip_duration>>

StepTrip(b) ==
  /\ in_trip' = InTripAfter(b)
  /\ IF b = "trip_start"
     THEN /\ trip_start' = time_elapsed
          /\ trip_duration' \in Uniform(min_trip_duration, max_trip_duration)
     ELSE UNCHANGED <<trip_start, trip_duration>>

\* random.random() is called only when the engine is not in a trip
Draws == IF in_trip THEN {0} ELSE RandomDraws

\* step(action) on an engine record e with the draws u and d: the fields
\* after the call, the delivered current_beam and the unclamped polarization
EngineStep(e, action, u, d) ==
  LET b == EngineBranch(e, u)
      bc == Override(action, "beam_current", e.beam_current)
      mf == Override(action, "microwave_frequency", e.microwave_frequency)
      current_beam == CurrentBeam(b, bc)
      dose == EngineDose(e, current_beam)
      raw == single_exponential_polarization(dose, pmax, phi) + MicrowaveEffect(mf)
  IN [on |-> TRUE,
      beam_current |-> bc,
      microwave_frequency |-> mf,
      accumulated_dose |-> dose,
      polarization |-> Clamp(raw),
      time_elapsed |-> AdvanceTime(e.time_elapsed, time_step),
      in_trip |-> InTripAfter(b),
      trip_start |-> IF b = "trip_start" THEN e.time_elapsed ELSE e.trip_start,
      trip_duration |-> IF b = "trip_start" THEN d ELSE e.trip_duration,
      delivered |-> current_beam,
      unclamped |-> raw]

\* the caller stops after MaxSteps steps, but lets a running trip end
StepAllowed ==
  \/ steps < MaxSteps
  \/ in_trip /\ steps < MaxSteps + max_trip_duration + 2

Step ==
  /\ StepAllowed
  /\ \E action \in Actions, u \in Draws :
       LET b == TripBranch(u)
           bc == Override(action, "beam_current", beam_current)
           mf == Override(action, "microwave_frequency", microwave_frequency)
           current_beam == CurrentBeam(b, bc)
           dose == EngineDose(Engine, current_beam)
           base_pol == single_exponential_polarization(dose, pmax, phi)
           pol == Clamp(base_pol + MicrowaveEffect(mf))
       IN /\ ~(BeamOn(current_beam) /\ beam_area = 0)
          /\ beam_current' = bc
          /\ microwave_frequency' = mf
          /\ StepTrip(b)
          /\ accumulated_dose' = dose
          /\ polarization' = pol
          /\ time_elapsed' = AdvanceTime(time_elapsed, time_step)
          /\ ret' = [time |-> time_elapsed',
                     polarization |-> polarization',
                     accumulated_dose |-> accumulated_dose',
                     beam_current |-> current_beam,
                     in_trip |-> in_trip',
                     microwave_frequency |-> microwave_frequency']
          /\ op' = "step"
          /\ branch' = b
          /\ steps' = steps + 1
          /\ resets' = 0
          /\ arg' = action
          /\ unclamped' = base_pol + MicrowaveEffect(mf)
          /\ outage' = OutageAfter(b, outage)
          /\ twin' = IF twin.on
                      THEN EngineStep(twin, ActionDict(action.beam_current, {}), u,
                                      IF b = "trip_start" THEN trip_duration'
                                      ELSE max_trip_duration)
                      ELSE twin
          /\ UNCHANGED <<config, constructed>>

\* step() on an engine with beam_area = 0: the division of the dose
\* increment raises ZeroDivisionError after the overrides and the trip logic
StepRaises ==
  /\ StepAllowed
  /\ beam_area = 0
  /\ \E action \in Actions, u \in Draws :
       LET b == TripBranch(u)
           bc == Override(action, "beam_current", beam_current)
           mf == Override(action, "microwave_frequency", microwave_frequency)
       IN /\ BeamOn(CurrentBeam(b, bc))
          /\ beam_current' = bc
          /\ microwave_frequency' = mf
          /\ StepTrip(b)
          /\ ret' = None
          /\ op' = "raise"
          /\ branch' = b
          /\ steps' = steps + 1
          /\ resets' = 0
          /\ arg' = action
          /\ unclamped' = None
          /\ outage' = OutageAfter(b, outage)
          /\ twin' = twin
          /\ UNCHANGED <<config, constructed, accumulated_dose, polarization,
                         time_elapsed>>

\* ------------------------------------------------------------------------
\* reset()
\* ------------------------------------------------------------------------
\* faulty variant: reset() forgets trip_duration
ResetFieldsKeepDuration ==
  /\ accumulated_dose' = 0
  /\ polarization' = pmax
  /\ time_elapsed' = 0
  /\ in_trip' = FALSE
  /\ trip_start' = 0
  /\ UNCHANGED <<trip_duration, beam_current, microwave_frequency, config>>

ResetFields ==
  /\ accumulated_dose' = 0
  /\ polarization' = pmax
  /\ time_elapsed' = 0
  /\ in_trip' = FALSE
  /\ trip_start' = 0
  /\ trip_duration' = 0
  /\ UNCHANGED <<beam_current, microwave_frequency, config>>

\* reset() on an engine record
EngineReset(e) ==
  [e EXCEPT !.accumulated_dose = 0, !.polarization = pmax, !.time_elapsed = 0,
            !.in_trip = FALSE, !.trip_start = 0, !.trip_duration = 0,
            !.delivered = 0, !.unclamped = 0]

Reset ==
  /\ resets < MaxResets
  /\ ResetFields
  /\ ret' = None
  /\ op' = "reset"
  /\ branch' = "none"
  /\ steps' = 0
  /\ resets' = resets + 1
  /\ arg' = None
  /\ unclamped' = None
  /\ outage' = 0
  /\ twin' = IF twin.on THEN EngineReset(twin) ELSE twin
  /\ UNCHANGED constructed

\* ------------------------------------------------------------------------
\* The frequency buttons of app.py
\* ------------------------------------------------------------------------
Nudge(delta) ==
  /\ microwave_frequency + delta \in
       (ReferenceFrequency - MaxNudge)..(ReferenceFrequency + MaxNudge)
  /\ microwave_frequency' = microwave_frequency + delta
  /\ ret' = None
  /\ op' = "nudge"
  /\ branch' = "none"
  /\ resets' = 0
  /\ arg' = None
  /\ unclamped' = None
  /\ UNCHANGED <<config, beam_current, accumulated_dose, polarization,
                 time_elapsed, in_trip, trip_start, trip_duration,
                 steps, constructed, outage, twin>>

IncreaseFrequency == Nudge(1)
DecreaseFrequency == Nudge(-1)

\* the same buttons pressed on the second engine only
TwinNudge(delta) ==
  /\ twin.on
  /\ twin.microwave_frequency + delta \in
       ReferenceFrequency..(ReferenceFrequency + MaxNudge)
  /\ twin' = [twin EXCEPT !.microwave_frequency = @ + delta]
  /\ ret' = None
  /\ op' = "twin_nudge"
  /\ branch' = "none"
  /\ resets' = 0
  /\ arg' = None
  /\ unclamped' = None
  /\ UNCHANGED <<config, fields, steps, constructed, outage>>

TwinIncreaseFrequency == TwinNudge(1)
TwinDecreaseFrequency == TwinNudge(-1)

Next == Step \/ Reset \/ IncreaseFrequency \/ DecreaseFrequency

Spec == Init /\ [][Next]_vars

\* Construction with arguments outside the documented precondition
InitAnyArgs ==
  \E bc \in {CurrentUnit}, ts \in AnyTimeSteps, area \in AnyBeamAreas,
     mf \in {ReferenceFrequency}, pmaxArg \in AnyPmaxArgs,
     rate \in {DefaultTripRate} :
    /\ Construct(bc, ts, area, mf, pmaxArg, rate, <<TripMin, TripMax>>)
    /\ twin = NoTwin

NextAnyArgs == Next \/ StepRaises

SpecAnyArgs == InitAnyArgs /\ [][NextAnyArgs]_vars

\* Two engines built with the same parameters but for microwave_frequency
ConstructTwin(bc, mf, pmaxArg) ==
  twin = [on |-> TRUE, beam_current |-> bc, microwave_frequency |-> mf,
          accumulated_dose |-> 0, polarization |-> pmaxArg, time_elapsed |-> 0,
          in_trip |-> FALSE, trip_start |-> 0, trip_duration |-> 0,
          delivered |-> 0, unclamped |-> 0]

InitTwin ==
  \E bc \in {CurrentUnit}, ts \in {MaxTimeStep}, area \in {1},
     mf \in {ReferenceFrequency}, mf2 \in {ReferenceFrequency + 1},
     pmaxArg \in {PMAX}, rate \in {DefaultTripRate} :
    /\ Construct(bc, ts, area, mf, pmaxArg, rate, <<TripMin, TripMax>>)
    /\ ConstructTwin(bc, mf2, pmaxArg)

NextTwin == Next \/ TwinIncreaseFrequency \/ TwinDecreaseFrequency

SpecTwin == InitTwin /\ [][NextTwin]_vars

\* A caller that keeps calling step() and never calls reset()
InitLive ==
  \E bc \in {CurrentUnit}, ts \in TimeSteps, area \in {1},
     mf \in {ReferenceFrequency}, pmaxArg \in {PMAX},
     rate \in {DefaultTripRate, SecondsPerHour} :
    /\ Construct(bc, ts, area, mf, pmaxArg, rate, <<TripMin, TripMax>>)
    /\ twin = NoTwin

NextLive == Step \/ IncreaseFrequency \/ DecreaseFrequency

SpecLive == InitLive /\ [][NextLive]_vars /\ WF_vars(Step)

\* ------------------------------------------------------------------------
\* Properties of step()
\* ------------------------------------------------------------------------

\* C1: over a step() the accumulated dose never decreases; it grows by
\* exactly (delivered current * time_step) / (ELECTRON_CHARGE * beam_area)
\* when the delivered current is > 0 and is unchanged on every other step.
C1_DoseMonotone ==
  [][op' = "step" =>
       /\ accumulated_dose' >= accumulated_dose
       /\ ret'.beam_current > 0 =>
            accumulated_dose' = accumulated_dose
              + (ret'.beam_current * time_step) \div (ELECTRON_CHARGE * beam_area)
       /\ ~(ret'.beam_current > 0) => accumulated_dose' = accumulated_dose]_vars

\* the dose has grown on an earlier step and the last step, a trip step with
\* a positive beam_current, delivered nothing
C1_Witness ==
  /\ op = "step"
  /\ accumulated_dose > 0
  /\ in_trip
  /\ beam_current > 0
  /\ ret.beam_current = 0
  /\ ret.accumulated_dose = accumulated_dose

\* C2: after every step() the stored polarization and the returned
\* polarization lie in [0.0, 1.0].
C2_PolarizationBounds ==
  op = "step" =>
    /\ polarization >= PolZero /\ polarization <= PolOne
    /\ ret.polarization >= PolZero /\ ret.polarization <= PolOne

\* a step whose microwave term alone exceeds the whole range
C2_Witness ==
  /\ op = "step"
  /\ microwave_frequency - ReferenceFrequency > PolOne
  /\ polarization = PolZero
  /\ ret.polarization = PolZero

\* C3: in the record returned by step() the delivered current is 0 when the
\* returned in_trip is true and the engine's beam_current when it is false.
C3_DeliveredCurrent ==
  op = "step" =>
    /\ ret.in_trip => ret.beam_current = 0
    /\ ~ret.in_trip => ret.beam_current = beam_current

\* a trip step of an engine whose beam_current is not 0
C3_Witness ==
  /\ op = "step"
  /\ ret.in_trip
  /\ beam_current > 0
  /\ ret.beam_current = 0

\* C4: a step that starts a trip, and every step that starts while the
\* engine is in a trip and time_elapsed - trip_start > trip_duration does
\* not hold, leaves in_trip true and delivers 0; nothing but step() and
\* reset() changes in_trip.
C4_TripHolds ==
  [][/\ (/\ op' = "step"
         /\ \/ branch' = "trip_start"
            \/ in_trip /\ ~(time_elapsed - trip_start > trip_duration))
        => (in_trip' /\ ret'.in_trip /\ ret'.beam_current = 0)
     /\ op' = "nudge" => in_trip' = in_trip]_vars

\* a step that started exactly trip_duration after the start of the trip and
\* is still a trip step
C4_Witness ==
  /\ op = "step"
  /\ branch = "tripped"
  /\ (time_elapsed - time_step) - trip_start = trip_duration
  /\ in_trip
  /\ ret.beam_current = 0
  /\ beam_current > 0

\* C5: the step at which a tripped engine finds
\* time_elapsed - trip_start > trip_duration clears in_trip, delivers
\* beam_current, accumulates its dose and returns in_trip = false.
C5_TripEndResumes ==
  [][(op' = "step" /\ in_trip /\ time_elapsed - trip_start > trip_duration) =>
       /\ ~in_trip'
       /\ ~ret'.in_trip
       /\ ret'.beam_current = beam_current'
       /\ accumulated_dose' = accumulated_dose +
            (IF beam_current' > 0
             THEN (beam_current' * time_step) \div (ELECTRON_CHARGE * beam_area)
             ELSE 0)]_vars

\* a step that ended a trip and delivered a positive current
C5_Witness ==
  /\ op = "step"
  /\ branch = "trip_end"
  /\ ~in_trip
  /\ ret.beam_current > 0
  /\ accumulated_dose > 0
  /\ (time_elapsed - time_step) - trip_start > trip_duration

\* ------------------------------------------------------------------------
\* Properties of reset() and of construction
\* ------------------------------------------------------------------------

\* C6: reset() sets accumulated_dose = 0, time_elapsed = 0,
\* polarization = pmax, in_trip = false, trip_start = 0, trip_duration = 0
\* and leaves beam_current, microwave_frequency, beam_area, time_step and the
\* trip parameters unchanged; a second reset() changes no field.
C6_Reset ==
  [][op' = "reset" =>
       /\ accumulated_dose' = 0
       /\ time_elapsed' = 0
       /\ polarization' = pmax
       /\ in_trip' = FALSE
       /\ trip_start' = 0
       /\ trip_duration' = 0
       /\ UNCHANGED <<beam_current, microwave_frequency, config>>
       /\ op = "reset" => UNCHANGED fields]_vars

\* two reset() calls in a row on an engine whose beam_current and
\* microwave_frequency were changed after construction
C6_Witness ==
  /\ op = "reset"
  /\ resets >= 2
  /\ beam_current # constructed.beam_current
  /\ microwave_frequency # constructed.microwave_frequency
  /\ accumulated_dose = 0
  /\ polarization = pmax

\* C7: after reset() the dose, time, polarization and trip fields have the
\* values they had immediately after construction, for every constructor
\* argument.
C7_ResetRestoresConstruction ==
  op = "reset" =>
    /\ accumulated_dose = constructed.accumulated_dose
    /\ time_elapsed = constructed.time_elapsed
    /\ polarization = constructed.polarization
    /\ in_trip = constructed.in_trip
    /\ trip_start = constructed.trip_start
    /\ trip_duration = constructed.trip_duration

\* C8: no step() runs on an engine constructed with a non-positive
\* time_step, a non-positive beam_area or a pmax outside (0, 1]: no step
\* divides by zero or leaves a negative dose.
C8_NoStepOnInvalidEngine ==
  op \in {"step", "raise"} =>
    /\ time_step > 0
    /\ beam_area > 0
    /\ constructed.polarization > PolZero
    /\ constructed.polarization <= PolOne
    /\ op # "raise"
    /\ accumulated_dose >= 0

\* C9: time_elapsed is the number of step() calls since construction or
\* reset() times time_step; every step() advances it by exactly time_step
\* and returns the advanced value.
C9_TimeAdvance ==
  /\ [](time_elapsed = steps * time_step)
  /\ [][op' = "step" =>
          /\ time_elapsed' = time_elapsed + time_step
          /\ ret'.time = time_elapsed']_vars

\* the second or a later step, a trip step, of an engine with a time_step
\* other than 1
C9_Witness ==
  /\ op = "step"
  /\ steps >= 2
  /\ time_step > 1
  /\ in_trip
  /\ ret.time = steps * time_step

\* C10 as stated: a step() of an engine with accumulated_dose = 0 that
\* computes with microwave_frequency = 140.1 leaves polarization = pmax.
C10_ZeroDoseBeforeStep ==
  [][(/\ op' = "step"
      /\ accumulated_dose = 0
      /\ microwave_frequency = ReferenceFrequency
      /\ microwave_frequency' = ReferenceFrequency)
       => polarization' = pmax]_vars

\* C10: a step() that computes with microwave_frequency = 140.1 and after
\* whose dose accumulation accumulated_dose is still 0 yields
\* polarization = pmax, in the engine and in the returned record.
C10_ZeroDoseIdentity ==
  [][(/\ op' = "step"
      /\ accumulated_dose = 0
      /\ accumulated_dose' = 0
      /\ microwave_frequency' = ReferenceFrequency)
       => (polarization' = pmax /\ ret'.polarization = pmax)]_vars

\* a step without delivered current at zero dose and 140.1 GHz, on an engine
\* that was constructed with another initial polarization
C10_Witness ==
  /\ op = "step"
  /\ steps = 1
  /\ accumulated_dose = 0
  /\ microwave_frequency = ReferenceFrequency
  /\ ret.beam_current <= 0
  /\ constructed.polarization # pmax
  /\ polarization = pmax

\* ------------------------------------------------------------------------
\* Further properties of step()
\* ------------------------------------------------------------------------

\* C11: two engines at equal dose and equal trip state that step with the
\* frequencies f1 and f2 have unclamped polarizations that differ by exactly
\* -0.0001 * (f1 - f2); against an engine at the 140.1 reference a higher
\* frequency gives a lower and a lower frequency a higher polarization.
C11_MicrowaveLinearity ==
  (op = "step" /\ twin.on) =>
    ((twin.accumulated_dose = accumulated_dose /\ twin.in_trip = in_trip) =>
       /\ unclamped - twin.unclamped =
            -(MicrowaveCoeff * (microwave_frequency - twin.microwave_frequency))
       /\ (twin.microwave_frequency = ReferenceFrequency
             /\ microwave_frequency > ReferenceFrequency)
            => unclamped < twin.unclamped
       /\ (twin.microwave_frequency = ReferenceFrequency
             /\ microwave_frequency < ReferenceFrequency)
            => unclamped > twin.unclamped)

\* both engines stepped at the same positive dose, the first far below the
\* reference, where its polarization is clamped, the second at the reference
C11_Witness ==
  /\ op = "step"
  /\ twin.on
  /\ accumulated_dose > 0
  /\ twin.accumulated_dose = accumulated_dose
  /\ twin.in_trip = in_trip
  /\ twin.microwave_frequency = ReferenceFrequency
  /\ microwave_frequency < ReferenceFrequency - PolOne
  /\ polarization = PolOne
  /\ unclamped > PolOne
  /\ twin.polarization = twin.unclamped

\* C12: a step() stores each field its action dict carries and delivers and
\* returns with the stored values; a step() without a key leaves that field
\* as it was, and so do reset() (both fields) and the frequency buttons
\* (beam_current).
C12_OverridePersists ==
  [][/\ op' = "step" =>
          /\ arg'.beam_current # {} => beam_current' \in arg'.beam_current
          /\ arg'.beam_current = {} => beam_current' = beam_current
          /\ arg'.microwave_frequency # {} =>
               microwave_frequency' \in arg'.microwave_frequency
          /\ arg'.microwave_frequency = {} =>
               microwave_frequency' = microwave_frequency
          /\ ret'.microwave_frequency = microwave_frequency'
          /\ ~ret'.in_trip => ret'.beam_current = beam_current'
     /\ op' \in {"reset", "nudge"} => beam_current' = beam_current
     /\ op' = "reset" => microwave_frequency' = microwave_frequency]_vars

\* a step() without any override that delivers and returns a beam_current
\* and a microwave_frequency that earlier steps had overridden
C12_Witness ==
  /\ op = "step"
  /\ arg.beam_current = {}
  /\ arg.microwave_frequency = {}
  /\ beam_current # constructed.beam_current
  /\ microwave_frequency > constructed.microwave_frequency + PolOne
  /\ ~ret.in_trip
  /\ ret.beam_current = beam_current
  /\ ret.microwave_frequency = microwave_frequency

\* C13 as stated: the step that clears in_trip because
\* time_elapsed - trip_start > trip_duration delivers a beam current of 0.
C13_TripEndDeliversZero ==
  [][(op' = "step" /\ in_trip /\ ~in_trip') => ret'.beam_current = 0]_vars

\* C13: after the step that ended a trip in_trip is false and the delivered
\* current is the engine's beam_current, not 0 unless beam_current is 0.
C13_TripEndDeliversBeam ==
  (op = "step" /\ branch = "trip_end") =>
    /\ ~in_trip
    /\ ret.beam_current = beam_current
    /\ beam_current # 0 => ret.beam_current # 0

\* a trip-ending step that delivered a current set by an override
C13_Witness ==
  /\ op = "step"
  /\ branch = "trip_end"
  /\ ret.beam_current > constructed.beam_current
  /\ ret.beam_current = beam_current
  /\ ~ret.in_trip

\* C14: a step that takes the engine from Normal to Tripped sets trip_start
\* to the time_elapsed the step started with and trip_duration to a value in
\* [min_trip_duration, max_trip_duration]; in every state with in_trip true,
\* trip_start < time_elapsed and trip_duration lies in that range.
C14_TripStart ==
  /\ [](in_trip =>
          /\ trip_start < time_elapsed
          /\ min_trip_duration <= trip_duration
          /\ trip_duration <= max_trip_duration)
  /\ [][(op' = "step" /\ ~in_trip /\ in_trip') =>
          /\ trip_start' = time_elapsed
          /\ min_trip_duration <= trip_duration'
          /\ trip_duration' <= max_trip_duration]_vars

\* a trip started by a step that was not the first, with the longest duration
C14_Witness ==
  /\ op = "step"
  /\ branch = "trip_start"
  /\ in_trip
  /\ trip_start > 0
  /\ trip_start = time_elapsed - time_step
  /\ trip_duration = max_trip_duration
  /\ min_trip_duration < max_trip_duration

\* C15: when the engine is in a trip and the caller keeps calling step()
\* without reset(), some later step() returns in_trip = false.
C15_TripEnds == in_trip ~> (op = "step" /\ ~ret.in_trip)

\* a step that returned in_trip = false after a trip of two or more steps
C15_Witness ==
  /\ op = "step"
  /\ branch = "trip_end"
  /\ outage >= 2
  /\ ~ret.in_trip
  /\ ~in_trip

\* C16: a trip of duration D delivers no beam on exactly n consecutive
\* steps with (n - 1) * time_step <= D < n * time_step: the steps of a
\* running trip are consecutive, each delivered 0 and started within D of
\* trip_start, and the step that ends the trip starts more than D after it.
C16_OutageLength ==
  /\ in_trip =>
       /\ outage >= 1
       /\ outage * time_step = time_elapsed - trip_start
       /\ (outage - 1) * time_step <= trip_duration
       /\ op = "step" => ret.beam_current = 0
  /\ (op = "step" /\ branch = "trip_end") =>
       /\ (outage - 1) * time_step <= trip_duration
       /\ trip_duration < outage * time_step
       /\ outage * time_step = (time_elapsed - time_step) - trip_start

\* a trip whose duration is a multiple of time_step, ended by the step after
\* the one that started exactly trip_duration after trip_start
C16_Witness ==
  /\ op = "step"
  /\ branch = "trip_end"
  /\ outage >= 2
  /\ (outage - 1) * time_step = trip_duration
  /\ time_step > 1

\* C17: trip_start and trip_duration change only on a step that takes the
\* engine from Normal to Tripped and on reset(); a step of a tripped engine
\* leaves both unchanged and draws no new trip, so a step that starts a trip
\* never starts from a tripped engine and the step that ends a trip returns
\* in_trip = false.
C17_TripFieldsFrame ==
  [][/\ (trip_start' # trip_start \/ trip_duration' # trip_duration) =>
          (op' = "reset" \/ (op' = "step" /\ ~in_trip /\ in_trip'))
     /\ (op' = "step" /\ in_trip) =>
          /\ trip_start' = trip_start
          /\ trip_duration' = trip_duration
          /\ branch' \in {"tripped", "trip_end"}
          /\ ret'.in_trip = ~(time_elapsed - trip_start > trip_duration)
     /\ (op' = "step" /\ branch' = "trip_start") => ~in_trip]_vars

\* the step that ended a trip of an engine that trips on every draw: it kept
\* trip_start and trip_duration and left the engine out of the trip
C17_Witness ==
  /\ op = "step"
  /\ branch = "trip_end"
  /\ trip_prob_per_step = SecondsPerHour
  /\ ~in_trip
  /\ trip_duration >= min_trip_duration
  /\ outage * time_step = (time_elapsed - time_step) - trip_start

\* C18: two engines built with the same parameters and given the same
\* draws and beam_current overrides, but different microwave frequencies
\* (constructor value, overrides, button presses), agree on accumulated_dose,
\* time_elapsed, in_trip, trip_start, trip_duration and the delivered
\* current after every call; a button press changes microwave_frequency of
\* its engine and no other field.
C18_FrequencyNonInterference ==
  /\ [](twin.on =>
          /\ twin.accumulated_dose = accumulated_dose
          /\ twin.time_elapsed = time_elapsed
          /\ twin.in_trip = in_trip
          /\ twin.trip_start = trip_start
          /\ twin.trip_duration = trip_duration
          /\ twin.beam_current = beam_current
          /\ op = "step" => twin.delivered = ret.beam_current)
  /\ [][/\ op' = "nudge" =>
             /\ microwave_frequency' # microwave_frequency
             /\ UNCHANGED <<config, beam_current, accumulated_dose,
                            polarization, time_elapsed, in_trip, trip_start,
                            trip_duration, twin>>
        /\ op' = "twin_nudge" =>
             /\ twin'.microwave_frequency # twin.microwave_frequency
             /\ twin' = [twin EXCEPT
                           !.microwave_frequency = twin'.microwave_frequency]
             /\ UNCHANGED <<config, fields>>]_vars

\* after a trip step at a positive dose, the first engine overridden to a
\* frequency far above the reference, the second brought to the reference by
\* a button, and the two polarizations different
C18_Witness ==
  /\ twin.on
  /\ op = "step"
  /\ in_trip
  /\ accumulated_dose > 0
  /\ microwave_frequency > ReferenceFrequency + PolOne
  /\ twin.microwave_frequency = ReferenceFrequency
  /\ twin.polarization # polarization
  /\ twin.accumulated_dose = accumulated_dose
  /\ twin.delivered = ret.beam_current

\* C19: with microwave_frequency held constant and no reset(), the
\* polarization after a step() is <= the polarization before it, from the
\* freshly constructed engine on, for every pmax argument.
C19_PolarizationNonIncreasing ==
  [][(/\ op \in {"init", "step"}
      /\ op' = "step"
      /\ microwave_frequency' = microwave_frequency)
       => polarization' <= polarization]_vars

TypeOK ==
  /\ beam_current \in BeamCurrents
  /\ time_step \in AnyTimeSteps
  /\ beam_area \in AnyBeamAreas
  /\ in_trip \in BOOLEAN
  /\ op \in {"init", "step", "raise", "reset", "nudge", "twin_nudge"}
  /\ branch \in {"none", "normal", "trip_start", "tripped", "trip_end"}
  /\ steps \in 0..(MaxSteps + max_trip_duration + 2)
  /\ outage \in 0..steps
  /\ twin.on \in BOOLEAN
  /\ resets \in 0..MaxResets

=============================================================================
